---- MODULE Spec2Model ----
(***************************************************************************)
(* Fragment extraction, quality scoring and deduplication of autopsy_pro_v3 *)
(* (extractor.py, models.py, config.py, utils.py).                          *)
(*                                                                         *)
(* Source text is modelled as TLA+ strings (characters are strings of      *)
(* length one, a line break is "\n").  hashlib.md5 is modelled as a        *)
(* collision-free digest: the tagged preimage.                             *)
(***************************************************************************)
EXTENDS Integers, Sequences, FiniteSets, TLC

VARIABLES
    q_code, q_lang, q_type, q_ret,      \* one call of assess_quality_enhanced
    d_in, d_out,                        \* deduplicate_fragments: the list given, the lists returned
    b_lines, b_start, b_ret,            \* one call of extract_js_block
    config, projects,                   \* arguments of extract_fragments
    pc,                                 \* position of the calling thread
    next_unit, running, finished,       \* ThreadPoolExecutor: queue head, busy workers, done futures
    collected,                          \* units whose result the caller has taken
    crashed,                            \* units in which an exception was raised
    files_read,                         \* files handed to safe_read_text
    all_fragments,                      \* the aggregate list
    result                              \* ExtractionResult.fragments, or the error raised

vars == << q_code, q_lang, q_type, q_ret, d_in, d_out, b_lines, b_start, b_ret, config, projects, pc,
           next_unit, running, finished, collected, crashed, files_read,
           all_fragments, result >>

scoreVars == << q_code, q_lang, q_type, q_ret >>
dedupVars == << d_in, d_out >>
blockVars == << b_lines, b_start, b_ret >>
runVars   == << config, projects, pc, next_unit, running, finished, collected, crashed,
                files_read, all_fragments, result >>

-----------------------------------------------------------------------------
(* str primitives                                                          *)

At(s, i) == SubSeq(s, i, i)

UpperAlpha == "ABCDEFGHIJKLMNOPQRSTUVWXYZ"
LowerAlpha == "abcdefghijklmnopqrstuvwxyz"
Digits     == "0123456789"

InStr(c, alphabet) == \E i \in 1..Len(alphabet) : At(alphabet, i) = c
IndexIn(c, alphabet) == CHOOSE i \in 1..Len(alphabet) : At(alphabet, i) = c

\* str.lower() of one character
LowerChar(c) == IF InStr(c, UpperAlpha) THEN At(LowerAlpha, IndexIn(c, UpperAlpha)) ELSE c

\* str.lower()
RECURSIVE Lower(_)
Lower(s) ==
    IF Len(s) = 0 THEN ""
    ELSE IF Len(s) = 1 THEN LowerChar(s)
    ELSE LET h == Len(s) \div 2
         IN  Lower(SubSeq(s, 1, h)) \o Lower(SubSeq(s, h + 1, Len(s)))

\* str.isalnum() of one character
IsAlnum(c) == InStr(c, LowerAlpha) \/ InStr(c, UpperAlpha) \/ InStr(c, Digits)

\* \w of the re module
IsWordChar(c) == IsAlnum(c) \/ c = "_"

\* characters removed by str.strip() and separating str.split()
IsSpace(c) == c \in {" ", "\t", "\n", "\r"}

\* the pattern p occurs in s at position i
MatchAt(s, p, i) == i >= 1 /\ i + Len(p) - 1 <= Len(s) /\ SubSeq(s, i, i + Len(p) - 1) = p

\* p in s
Contains(s, p) == \E i \in 1..(Len(s) - Len(p) + 1) : MatchAt(s, p, i)

\* s.startswith(p)
StartsWith(s, p) == MatchAt(s, p, 1)

\* s.count(p): occurrences that do not overlap, scanning from the left
RECURSIVE CountFrom(_, _, _)
CountFrom(s, p, from) ==
    LET hits == {i \in from..(Len(s) - Len(p) + 1) : MatchAt(s, p, i)}
    IN  IF hits = {} THEN 0
        ELSE LET m == CHOOSE i \in hits : \A j \in hits : i <= j
             IN  1 + CountFrom(s, p, m + Len(p))

Count(s, p) == CountFrom(s, p, 1)

\* len(re.findall(r'\bkw\b', s)) for a keyword kw made of word characters
CountWord(s, kw) ==
    Cardinality({i \in 1..(Len(s) - Len(kw) + 1) :
        /\ MatchAt(s, kw, i)
        /\ (i = 1 \/ ~IsWordChar(At(s, i - 1)))
        /\ (i + Len(kw) - 1 = Len(s) \/ ~IsWordChar(At(s, i + Len(kw))))})

\* s.lstrip(), s.strip()
LStrip(s) ==
    LET keep == {i \in 1..Len(s) : ~IsSpace(At(s, i))}
    IN  IF keep = {} THEN ""
        ELSE SubSeq(s, CHOOSE i \in keep : \A j \in keep : i <= j, Len(s))

Strip(s) ==
    LET keep == {i \in 1..Len(s) : ~IsSpace(At(s, i))}
    IN  IF keep = {} THEN ""
        ELSE SubSeq(s, CHOOSE i \in keep : \A j \in keep : i <= j,
                       CHOOSE i \in keep : \A j \in keep : i >= j)

\* s.splitlines(): the pieces between line breaks, no empty piece after a final break
SplitLines(s) ==
    LET nl    == {i \in 1..Len(s) : At(s, i) = "\n"}
        brk   == [k \in 1..Cardinality(nl) |->
                    CHOOSE p \in nl : Cardinality({r \in nl : r < p}) = k - 1]
        tail  == IF Len(s) > 0 /\ At(s, Len(s)) # "\n" THEN 1 ELSE 0
        n     == Cardinality(nl) + tail
        first(k) == IF k = 1 THEN 1 ELSE brk[k - 1] + 1
        last(k)  == IF k <= Cardinality(nl) THEN brk[k] - 1 ELSE Len(s)
    IN  [k \in 1..n |-> SubSeq(s, first(k), last(k))]

\* sep.join(parts)
RECURSIVE Join(_, _)
Join(parts, sep) ==
    IF Len(parts) = 0 THEN ""
    ELSE IF Len(parts) = 1 THEN parts[1]
    ELSE parts[1] \o sep \o Join(Tail(parts), sep)

Max(a, b) == IF a >= b THEN a ELSE b
Min(a, b) == IF a <= b THEN a ELSE b

\* the largest member of a set of naturals, 0 for the empty set
SetMax(S) == IF S = {} THEN 0 ELSE CHOOSE m \in S : \A x \in S : m >= x

RECURSIVE SumSeq(_)
SumSeq(xs) == IF Len(xs) = 0 THEN 0 ELSE Head(xs) + SumSeq(Tail(xs))

RECURSIVE Gcd(_, _)
Gcd(a, b) == IF b = 0 THEN a ELSE Gcd(b, a % b)

\* what a division by zero raises, in the place of a quotient
ZeroDivisionError == << 0, 0 >>

\* a float quotient n/d, kept exact as a reduced fraction; 0.0 is <<0, 1>>
Ratio(n, d) ==
    IF d = 0 THEN ZeroDivisionError
    ELSE IF n = 0 THEN << 0, 1 >>
    ELSE << n \div Gcd(n, d), d \div Gcd(n, d) >>

\* r > pct/100
RatioGt(r, pct) == r[1] * 100 > pct * r[2]

-----------------------------------------------------------------------------
(* extractor.py: the analyzers and the scorer                              *)

python_keywords == << "if", "elif", "else", "for", "while", "except" >>
other_keywords  == << "case", "catch" >>
operators       == << "&&", "||", "?" >>

PyLangs == {"py", "python"}

compute_complexity(code, lang) ==
    IF lang \in PyLangs
    THEN 1 + SumSeq([k \in 1..Len(python_keywords) |-> CountWord(code, python_keywords[k])])
           + CountWord(code, "and") + CountWord(code, "or")
    ELSE 1 + SumSeq([k \in 1..Len(python_keywords \o other_keywords) |->
                        CountWord(code, (python_keywords \o other_keywords)[k])])
           + SumSeq([k \in 1..Len(operators) |-> Count(code, operators[k])])

\* the line counts as documentation in this language
IsDocLine(stripped, lang) ==
    IF lang \in PyLangs
    THEN StartsWith(stripped, "#") \/ StartsWith(stripped, "\"\"\"") \/ StartsWith(stripped, "'''")
    ELSE IF lang \in {"js", "javascript", "typescript", "go", "rust", "java", "c", "cpp"}
    THEN StartsWith(stripped, "//") \/ StartsWith(stripped, "/*") \/ StartsWith(stripped, "*")
    ELSE IF lang \in {"ruby"}
    THEN StartsWith(stripped, "#")
    ELSE IF lang \in {"php"}
    THEN StartsWith(stripped, "//") \/ StartsWith(stripped, "#") \/ StartsWith(stripped, "/*")
    ELSE FALSE

\* the indices of the lines that are not blank
NonBlank(lines) == {k \in 1..Len(lines) : Strip(lines[k]) # ""}

\* the non-blank lines, and those of them that are documentation
CodeLineCount(code) == Cardinality(NonBlank(SplitLines(code)))

DocLines(lines, lang) == {k \in NonBlank(lines) : IsDocLine(Strip(lines[k]), lang)}

DocLineCount(code, lang) == Cardinality(DocLines(SplitLines(code), lang))

\* doc_lines / code_lines, whatever code_lines is
DocRatioUnguarded(doc_lines, code_lines) == Ratio(doc_lines, code_lines)

\* doc_lines / code_lines if code_lines > 0 else 0.0
DocRatio(doc_lines, code_lines) ==
    IF code_lines > 0 THEN Ratio(doc_lines, code_lines) ELSE << 0, 1 >>

compute_documentation_ratio(code, lang) ==
    DocRatio(DocLineCount(code, lang), CodeLineCount(code))

debug_patterns == {"console.log", "print(", "println", "fmt.println", "debugger"}

\* max(1, min(10, score))
Clamp(score) == Max(1, Min(10, score))

\* the largest leading-whitespace width over the non-blank lines
MaxIndentOf(lines) == SetMax({Len(lines[k]) - Len(LStrip(lines[k])) : k \in NonBlank(lines)})

MaxIndent(code) == MaxIndentOf(SplitLines(code))

\* metrics.get(key, default)
Get(metrics, key, default) == IF key \in DOMAIN metrics THEN metrics[key] ELSE default

\* what assess_quality_enhanced finds out about the code, text being code.lower()
Observed(code, text, lang, fragment_type) ==
    [line_count |-> CodeLineCount(code),
     doc_ratio  |-> compute_documentation_ratio(code, lang),
     typed      |-> lang \in PyLangs \/ lang \in {"typescript", "ts"},
     has_types  |-> IF lang \in PyLangs
                    THEN Contains(code, "->") \/ Contains(code, ": ")
                    ELSE Contains(code, ": ") \/ Contains(text, "interface") \/ Contains(text, "type "),
     has_async  |-> Contains(text, "async") \/ Contains(text, "await"),
     has_error_handling |->
         \E kw \in {"try", "catch", "except", "error", "throw"} : Contains(text, kw),
     has_exports |-> Contains(text, "export"),
     has_todos  |-> Contains(text, "todo") \/ Contains(text, "fixme") \/ Contains(text, "hack"),
     has_debug  |-> \E pat \in debug_patterns : Contains(text, pat),
     is_test    |-> Contains(text, "test") \/ Contains(text, "spec") \/ Contains(text, "describe"),
     test_type  |-> Contains(Lower(fragment_type), "test"),
     complexity |-> compute_complexity(code, lang),
     max_indent |-> MaxIndent(code),
     too_many_ifs |-> Count(code, "if") > 10]

\* line count scoring in which the penalty starts above 100 lines
LengthScoreFrom100(line_count) ==
    IF 10 <= line_count /\ line_count <= 50 THEN 2
    ELSE IF (5 <= line_count /\ line_count < 10) \/ (50 < line_count /\ line_count <= 100) THEN 1
    ELSE IF line_count > 100 THEN -2
    ELSE 0

\* "Line count scoring"
LengthScore(line_count) ==
    IF 10 <= line_count /\ line_count <= 50 THEN 2
    ELSE IF (5 <= line_count /\ line_count < 10) \/ (50 < line_count /\ line_count <= 100) THEN 1
    ELSE IF line_count > 200 THEN -2
    ELSE 0

\* "Documentation"
DocScore(doc_ratio) == IF RatioGt(doc_ratio, 15) THEN 2 ELSE IF RatioGt(doc_ratio, 5) THEN 1 ELSE 0

\* "Complexity"
ComplexityScore(complexity) ==
    IF complexity > 15 THEN -2
    ELSE IF complexity > 10 THEN -1
    ELSE IF 3 <= complexity /\ complexity <= 8 THEN 1
    ELSE 0

\* "Nesting depth"
IndentScore(max_indent) == IF max_indent > 24 THEN -2 ELSE IF max_indent > 16 THEN -1 ELSE 0

\* one point for a condition that holds
Point(cond) == IF cond THEN 1 ELSE 0

\* score, from 5 and the adjustments, before it is clamped
ScoreOf(o) ==
    5 + LengthScore(o.line_count) + DocScore(o.doc_ratio) + Point(o.typed /\ o.has_types)
      + Point(o.has_async) + Point(o.has_error_handling) + Point(o.has_exports)
      - Point(o.has_todos) - Point(o.has_debug) + Point(o.is_test /\ o.test_type)
      + ComplexityScore(o.complexity) + IndentScore(o.max_indent) - Point(o.too_many_ifs)

\* metrics, without final_score
MetricsOf(o) ==
    ("line_count" :> o.line_count) @@ ("length_score" :> LengthScore(o.line_count))
    @@ ("doc_ratio" :> o.doc_ratio)
    @@ (IF o.typed THEN "has_types" :> o.has_types ELSE << >>)
    @@ (IF o.has_async THEN "has_async" :> TRUE ELSE << >>)
    @@ ("has_error_handling" :> o.has_error_handling)
    @@ (IF o.has_exports THEN "has_exports" :> TRUE ELSE << >>)
    @@ ("has_todos" :> o.has_todos) @@ ("has_debug" :> o.has_debug)
    @@ ("is_test" :> o.is_test) @@ ("complexity" :> o.complexity)
    @@ ("max_indent" :> o.max_indent)
    @@ (IF o.too_many_ifs THEN "too_many_ifs" :> TRUE ELSE << >>)

RawOf(o) == << ScoreOf(o), MetricsOf(o) >>

\* the score before clamping, and the metrics without final_score
RawAssessment(code, lang, fragment_type) ==
    RawOf(Observed(code, Lower(code), lang, fragment_type))

\* << final_score, metrics with final_score >>
Finalize(raw, final_score) == << final_score, raw[2] @@ ("final_score" :> final_score) >>

Clamped(raw) == Finalize(raw, Clamp(raw[1]))

\* a scorer that forgets the lower end of the clamp
UnclampedBelow(raw) == Finalize(raw, Min(10, raw[1]))

AssessUnclampedBelow(code, lang, fragment_type) ==
    UnclampedBelow(RawAssessment(code, lang, fragment_type))

\* returns << quality_score, metrics >>
assess_quality_enhanced(code, lang, fragment_type) ==
    Clamped(RawAssessment(code, lang, fragment_type))

-----------------------------------------------------------------------------
(* utils.py, models.py, config.py                                          *)

\* hashlib.md5(text.encode()).hexdigest(), taken to be free of collisions
Md5(text) == << "md5", text >>

\* str(n) for n >= 0
RECURSIVE IntToStr(_)
IntToStr(n) == IF n < 10 THEN At(Digits, n + 1) ELSE IntToStr(n \div 10) \o At(Digits, (n % 10) + 1)

\* the first 16 hex digits of the digest of "project:filename:line"
stable_uid(project, filename, line) ==
    << "md5[:16]", project \o ":" \o filename \o ":" \o line >>

\* the part of p after position i
After(p, i) == SubSeq(p, i + 1, Len(p))

\* Path(p).name: the last component
PathName(p) == After(p, SetMax({i \in 1..Len(p) : At(p, i) = "/"}))

\* the suffix of a name: from its last dot, unless the name starts or ends with it
SuffixOf(n, ds) ==
    IF ds = {} \/ SetMax(ds) = 1 \/ SetMax(ds) = Len(n) THEN "" ELSE SubSeq(n, SetMax(ds), Len(n))

DotsOf(n) == {i \in 1..Len(n) : At(n, i) = "."}

NameSuffix(n) == SuffixOf(n, DotsOf(n))

\* Path(p).suffix
PathSuffix(p) == NameSuffix(PathName(p))

\* Fragment.embedding_hash before compute_embedding_hash has run
NoHash == << >>

\* Fragment.code_hash
code_hash(frag) == Md5(frag.code)

\* normalized.split(): the maximal runs of alphanumeric characters, as a set
Words(text) ==
    LET n == Len(text)
        alnum(i) == i >= 1 /\ i <= n /\ IsAlnum(At(text, i))
        starts == {i \in 1..n : alnum(i) /\ ~alnum(i - 1)}
        endOf(i) == CHOOSE j \in i..n : ~alnum(j + 1) /\ \A k \in i..(j - 1) : alnum(k + 1)
    IN  {SubSeq(text, i, endOf(i)) : i \in starts}

\* the order of str on lower-case alphanumeric words: by code point, a prefix first
CodePoints == Digits \o LowerAlpha

StrLess(a, b) ==
    \E i \in 1..Len(b) :
        /\ \A k \in 1..(i - 1) : k <= Len(a) /\ At(a, k) = At(b, k)
        /\ \/ i = Len(a) + 1
           \/ i <= Len(a) /\ IndexIn(At(a, i), CodePoints) < IndexIn(At(b, i), CodePoints)

\* sorted(set(words)), by insertion
RECURSIVE SortedWords(_)
SortedWords(ws) ==
    IF ws = {} THEN << >>
    ELSE LET w    == CHOOSE x \in ws : TRUE
             rest == SortedWords(ws \ {w})
             n    == Cardinality({k \in 1..Len(rest) : StrLess(rest[k], w)})
         IN  SubSeq(rest, 1, n) \o << w >> \o SubSeq(rest, n + 1, Len(rest))

EmbedWords == 50

\* ' '.join(word_set[:50])
FirstWords(word_set) == Join(SubSeq(word_set, 1, Min(EmbedWords, Len(word_set))), " ")

\* the digest of the first 50 sorted words of the lower-cased text
semantic_hash(code) == Md5(FirstWords(SortedWords(Words(Lower(code)))))

\* Config.validate(): the issues that concern extraction
validate(cfg) ==
    {issue \in {"min_quality", "min_lines", "max_lines", "max_workers"} :
        \/ issue = "min_quality" /\ ~(1 <= cfg.min_quality /\ cfg.min_quality <= 10)
        \/ issue = "min_lines" /\ cfg.min_lines < 1
        \/ issue = "max_lines" /\ cfg.max_lines < cfg.min_lines
        \/ issue = "max_workers" /\ cfg.max_workers < 1}

-----------------------------------------------------------------------------
(* extractor.py: the extractors                                             *)

\* Fragment(...) as the extractors call it; fields not passed take the dataclass defaults
Fragment(uid, name, type, file, project, code, lines, quality, start_line, end_line, imports, exports, metrics, has_tests) ==
    [uid |-> uid, name |-> name, type |-> type, file |-> file, project |-> project,
     code |-> code, lines |-> lines, quality |-> quality, start_line |-> start_line,
     end_line |-> end_line, dependencies |-> << >>, imports |-> imports,
     exports |-> exports,
     complexity |-> Get(metrics, "complexity", 0),
     documentation_ratio |-> Get(metrics, "doc_ratio", << 0, 1 >>),
     has_types |-> Get(metrics, "has_types", FALSE),
     has_tests |-> has_tests,
     has_error_handling |-> Get(metrics, "has_error_handling", FALSE),
     tags |-> << >>, embedding_hash |-> NoHash, similar_fragments |-> << >>]

\* type of the fragment of an ast node
PyFragType(kind) ==
    IF kind = "ClassDef" THEN "PythonClass"
    ELSE IF kind = "AsyncFunctionDef" THEN "PythonAsyncFunc"
    ELSE "PythonFunc"

\* PyFragment with start_line left 0-based
PyFragmentZeroBased(node, frag_type, file_path, project_name, block_lines, block, scored) ==
    Fragment(stable_uid(project_name, PathName(file_path), IntToStr(node.lineno - 1)), node.name, frag_type, file_path, project_name, block, Len(block_lines), scored[1], node.lineno - 1, node.end_lineno, node.imports, << >>, scored[2], Get(scored[2], "is_test", FALSE))

\* the fragment extract_python_fragments builds for a node, scored being what the scorer
\* returned for its block
PyFragment(node, frag_type, file_path, project_name, block_lines, block, scored) ==
    Fragment(stable_uid(project_name, PathName(file_path), IntToStr(node.lineno - 1)), node.name, frag_type, file_path, project_name, block, Len(block_lines), scored[1], node.lineno, node.end_lineno, node.imports, << >>, scored[2], Get(scored[2], "is_test", FALSE))

\* The loop over ast.walk(tree), from node i on.  ctx holds what the loop does not
\* change: lines, nodes (the definition nodes ast.walk yields), file_path, project_name,
\* cfg and fault; fault = k > 0 makes the k-th call of the scorer raise.
\* Returns << fragments, raised >>.
RECURSIVE PyLoop(_, _, _, _)

\* PyKeep without "Skip low quality if configured"
PyKeepAny(ctx, i, calls, fragments, fragment) ==
    PyLoop(ctx, i + 1, calls + 1, Append(fragments, fragment))

\* "Skip low quality if configured", else append, and go on with the next node
PyKeep(ctx, i, calls, fragments, fragment) ==
    IF fragment.quality < ctx.cfg.min_quality
    THEN PyLoop(ctx, i + 1, calls + 1, fragments)
    ELSE PyLoop(ctx, i + 1, calls + 1, Append(fragments, fragment))

PyLoop(ctx, i, calls, fragments) ==
    IF i > Len(ctx.nodes) THEN << fragments, FALSE >>
    ELSE
    LET node  == ctx.nodes[i]
        start == node.lineno - 1
        end   == node.end_lineno
        block_lines == SubSeq(ctx.lines, start + 1, end)
    IN  IF ~(0 <= start /\ start < Len(ctx.lines) /\ end <= Len(ctx.lines))
        THEN PyLoop(ctx, i + 1, calls, fragments)
        ELSE IF Len(block_lines) < ctx.cfg.min_lines \/ Len(block_lines) > ctx.cfg.max_lines
        THEN PyLoop(ctx, i + 1, calls, fragments)
        ELSE IF calls + 1 = ctx.fault THEN << fragments, TRUE >>
        ELSE PyKeep(ctx, i, calls, fragments,
                    PyFragment(node, PyFragType(node.kind), ctx.file_path, ctx.project_name,
                               block_lines, Join(block_lines, "\n"),
                               assess_quality_enhanced(Join(block_lines, "\n"), "python",
                                                       PyFragType(node.kind))))

\* parsed is what ast.parse makes of the text: [ok |-> FALSE] for a SyntaxError,
\* else the definition nodes in ast.walk order.  Returns << fragments, raised >>.
extract_python_fragments(code, parsed, file_path, project_name, cfg, fault) ==
    IF ~parsed.ok THEN << << >>, TRUE >>
    ELSE PyLoop([lines |-> SplitLines(code), nodes |-> parsed.nodes, file_path |-> file_path,
                 project_name |-> project_name, cfg |-> cfg, fault |-> fault], 1, 0, << >>)

\* count of "{" minus count of "}" in a line
BraceDelta(line) == Count(line, "{") - Count(line, "}")

JsScanWindow == 500

\* the scan of extract_js_block from line i (0-based) on; returns << block lines, end_line >>
RECURSIVE JsScan(_, _, _, _, _, _)
JsScan(lines, limit, i, brace, block, end_line) ==
    IF i >= limit THEN << block, end_line >>
    ELSE IF brace + BraceDelta(lines[i + 1]) <= 0 THEN << Append(block, lines[i + 1]), i >>
    ELSE JsScan(lines, limit, i + 1, brace + BraceDelta(lines[i + 1]),
                Append(block, lines[i + 1]), i)

\* "\n".join(block), end_line
JoinBlock(got) == << Join(got[1], "\n"), got[2] >>

\* returns << block, end_line >>, lines being 0-based in start_line and end_line
extract_js_block(lines, start_line) ==
    IF start_line >= Len(lines) THEN << "", start_line >>
    ELSE IF ~Contains(lines[start_line + 1], "{") THEN << lines[start_line + 1], start_line >>
    ELSE JoinBlock(JsScan(lines, Min(Len(lines), start_line + JsScanWindow), start_line + 1,
                          BraceDelta(lines[start_line + 1]), << lines[start_line + 1] >>,
                          start_line))

\* the fragment extract_js_fragments builds for a match, got being what extract_js_block
\* returned for it and scored what the scorer returned for the block
JsFragment(m, file_path, project_name, got, block_lines, scored) ==
    Fragment(stable_uid(project_name, PathName(file_path), IntToStr(m.start_line)), m.name, "JS/" \o m.frag_type, file_path, project_name, got[1], Len(block_lines), scored[1], m.start_line + 1, got[2] + 1, m.imports, IF Contains(got[1], "export") THEN << m.name >> ELSE << >>, scored[2], FALSE)

\* The loops over the patterns and their matches, from match i on.  ctx holds lines,
\* matches (the matches re.finditer yields, pattern by pattern: [name, frag_type,
\* start_line, imports]), file_path, project_name, cfg and fault.
\* An exception leaves the function: << << >>, TRUE >>.
RECURSIVE JsLoop(_, _, _, _)

JsKeep(ctx, i, calls, fragments, fragment) ==
    IF fragment.quality < ctx.cfg.min_quality
    THEN JsLoop(ctx, i + 1, calls + 1, fragments)
    ELSE JsLoop(ctx, i + 1, calls + 1, Append(fragments, fragment))

\* the turn of the loop for a match, once its block is known
JsBlock(ctx, i, calls, fragments, got, block_lines) ==
    IF Len(block_lines) < ctx.cfg.min_lines \/ Len(block_lines) > ctx.cfg.max_lines
    THEN JsLoop(ctx, i + 1, calls, fragments)
    ELSE IF calls + 1 = ctx.fault THEN << << >>, TRUE >>
    ELSE JsKeep(ctx, i, calls, fragments,
                JsFragment(ctx.matches[i], ctx.file_path, ctx.project_name, got, block_lines,
                           assess_quality_enhanced(got[1], "javascript", ctx.matches[i].frag_type)))

JsMatch(ctx, i, calls, fragments, got) ==
    JsBlock(ctx, i, calls, fragments, got, SplitLines(got[1]))

JsLoop(ctx, i, calls, fragments) ==
    IF i > Len(ctx.matches) THEN << fragments, FALSE >>
    ELSE JsMatch(ctx, i, calls, fragments, extract_js_block(ctx.lines, ctx.matches[i].start_line))

extract_js_fragments(code, matches, file_path, project_name, cfg, fault) ==
    JsLoop([lines |-> SplitLines(code), matches |-> matches, file_path |-> file_path,
            project_name |-> project_name, cfg |-> cfg, fault |-> fault], 1, 0, << >>)

\* "except Exception": an exception that reaches extract_from_file leaves the empty list
Caught(got) == IF got[2] THEN << << >>, TRUE >> ELSE got

\* the extractor chosen by what the text parses as, whatever the suffix
BySuffixSniffing(file, suffix, project_name, cfg, fault) ==
    IF file.parsed.ok
    THEN extract_python_fragments(file.text, file.parsed, file.path, project_name, cfg, fault)
    ELSE Caught(extract_js_fragments(file.text, file.matches, file.path, project_name, cfg, fault))

\* the branches of extract_from_file on file_path.suffix
BySuffix(file, suffix, project_name, cfg, fault) ==
    IF suffix = ".py"
    THEN extract_python_fragments(file.text, file.parsed, file.path, project_name, cfg, fault)
    ELSE IF suffix \in {".js", ".jsx", ".ts", ".tsx"}
    THEN Caught(extract_js_fragments(file.text, file.matches, file.path, project_name, cfg, fault))
    ELSE << << >>, FALSE >>

\* One unit of work.  file is [path, readable, text, parsed, matches]: the path, whether
\* safe_read_text returns text for it (else None) and which, and what ast.parse and
\* re.finditer make of the text.
\* Returns << fragments, raised >>: raised tells that an exception was raised inside.
extract_from_file(file, project_name, cfg, fault) ==
    IF ~file.readable THEN << << >>, TRUE >>
    ELSE IF file.text = "" THEN << << >>, FALSE >>
    ELSE BySuffix(file, PathSuffix(file.path), project_name, cfg, fault)

-----------------------------------------------------------------------------
(* The files the model runs on.  parsed and matches are what ast.parse/ast.walk and *)
(* re.finditer with the patterns of extract_js_fragments return for the text.       *)

F_util ==
    [path |-> "/w/alpha/util.py", readable |-> TRUE,
     text |-> "def add(a: int, b: int) -> int:\n    return a + b\n\ndef sub(a, b):\n    # subtract\n    return a - b\n",
     parsed |-> [ok |-> TRUE, nodes |-> << [kind |-> "FunctionDef", name |-> "add", lineno |-> 1, end_lineno |-> 2, imports |-> << >>], [kind |-> "FunctionDef", name |-> "sub", lineno |-> 4, end_lineno |-> 6, imports |-> << >>] >>],
     matches |-> << >>]

F_broken ==
    [path |-> "/w/alpha/broken.py", readable |-> TRUE,
     text |-> "def broken(:\n    pass\n",
     parsed |-> [ok |-> FALSE, nodes |-> << >>],
     matches |-> << >>]

F_calc ==
    [path |-> "/w/beta/calc.py", readable |-> TRUE,
     text |-> "def sub(a, b):\n    # subtract\n    return b - a\n\ndef test_add():\n    x: int = add(1, 2)\n    assert x == 3\n",
     parsed |-> [ok |-> TRUE, nodes |-> << [kind |-> "FunctionDef", name |-> "sub", lineno |-> 1, end_lineno |-> 3, imports |-> << >>], [kind |-> "FunctionDef", name |-> "test_add", lineno |-> 5, end_lineno |-> 7, imports |-> << >>] >>],
     matches |-> << >>]

F_gone ==
    [path |-> "/w/alpha/gone.py", readable |-> FALSE,
     text |-> "",
     parsed |-> [ok |-> TRUE, nodes |-> << >>],
     matches |-> << >>]

F_app ==
    [path |-> "/w/alpha/app.js", readable |-> TRUE,
     text |-> "export function greet(name) {\n  try {\n    return hello(name);\n  } catch (e) {\n    throw e;\n  }\n}\n",
     parsed |-> [ok |-> FALSE, nodes |-> << >>],
     matches |-> << [name |-> "greet", frag_type |-> "Function", start_line |-> 0, imports |-> << >>] >>]

F_empty ==
    [path |-> "/w/alpha/empty.py", readable |-> TRUE,
     text |-> "",
     parsed |-> [ok |-> TRUE, nodes |-> << >>],
     matches |-> << >>]

F_libutil ==
    [path |-> "/w/alpha/lib/util.py", readable |-> TRUE,
     text |-> "def add(a: int, b: int) -> int:\n    return a + b\n",
     parsed |-> [ok |-> TRUE, nodes |-> << [kind |-> "FunctionDef", name |-> "add", lineno |-> 1, end_lineno |-> 2, imports |-> << >>] >>],
     matches |-> << >>]

F_main ==
    [path |-> "/w/alpha/main.go", readable |-> TRUE,
     text |-> "func main() {}\n",
     parsed |-> [ok |-> FALSE, nodes |-> << >>],
     matches |-> << >>]

F_hack ==
    [path |-> "/w/beta/hack.py", readable |-> TRUE,
     text |-> "def hack():\n    print('todo')\n\ndef one(): return 1\n",
     parsed |-> [ok |-> TRUE, nodes |-> << [kind |-> "FunctionDef", name |-> "hack", lineno |-> 1, end_lineno |-> 2, imports |-> << >>], [kind |-> "FunctionDef", name |-> "one", lineno |-> 4, end_lineno |-> 4, imports |-> << >>] >>],
     matches |-> << >>]

F_lib ==
    [path |-> "/w/beta/lib.rs", readable |-> TRUE,
     text |-> "fn lib() {}\n",
     parsed |-> [ok |-> FALSE, nodes |-> << >>],
     matches |-> << >>]

F_notes ==
    [path |-> "/w/beta/notes.py", readable |-> TRUE,
     text |-> "# notes only\nx = 5\n",
     parsed |-> [ok |-> TRUE, nodes |-> << >>],
     matches |-> << >>]

F_gap ==
    [path |-> "/w/beta/gap.py", readable |-> TRUE,
     text |-> "def gap(a: int, b: int) -> int:\n\n    return a + b\n",
     parsed |-> [ok |-> TRUE, nodes |-> << [kind |-> "FunctionDef", name |-> "gap", lineno |-> 1, end_lineno |-> 3, imports |-> << >>] >>],
     matches |-> << >>]

F_check ==
    [path |-> "/w/alpha/check.js", readable |-> TRUE,
     text |-> "function testGreet() {\n\n  return greet('a') === 'hi a';\n}\n",
     parsed |-> [ok |-> FALSE, nodes |-> << >>],
     matches |-> << [name |-> "testGreet", frag_type |-> "Function", start_line |-> 0, imports |-> << >>] >>]

F_old ==
    [path |-> "/w/beta/old.py.bak", readable |-> TRUE,
     text |-> "def old(a: int) -> int:\n    return a\n",
     parsed |-> [ok |-> TRUE, nodes |-> << [kind |-> "FunctionDef", name |-> "old", lineno |-> 1, end_lineno |-> 2, imports |-> << >>] >>],
     matches |-> << >>]

F_arrow ==
    [path |-> "/w/alpha/arrow.js", readable |-> TRUE,
     text |-> "const twice = (x) => {\n  return x * 2;\n};\n",
     parsed |-> [ok |-> FALSE, nodes |-> << >>],
     matches |-> << [name |-> "twice", frag_type |-> "ArrowFunc", start_line |-> 0, imports |-> << >>], [name |-> "twice", frag_type |-> "Component", start_line |-> 0, imports |-> << >>] >>]

F_big1 ==
    [path |-> "/w/gamma/big1.py", readable |-> TRUE,
     text |-> "def big():\n    return [a01, a02, a03, a04, a05, a06, a07, a08, a09, a10, a11, a12, a13, a14, a15, a16, a17, a18, a19, a20, a21, a22, a23, a24, a25, a26, a27, a28, a29, a30, a31, a32, a33, a34, a35, a36, a37, a38, a39, a40, a41, a42, a43, a44, a45, a46, a47, a48, a49, a50, zq1]\n",
     parsed |-> [ok |-> TRUE, nodes |-> << [kind |-> "FunctionDef", name |-> "big", lineno |-> 1, end_lineno |-> 2, imports |-> << >>] >>],
     matches |-> << >>]

F_big2 ==
    [path |-> "/w/gamma/big2.py", readable |-> TRUE,
     text |-> "def other():\n    return [a01, a02, a03, a04, a05, a06, a07, a08, a09, a10, a11, a12, a13, a14, a15, a16, a17, a18, a19, a20, a21, a22, a23, a24, a25, a26, a27, a28, a29, a30, a31, a32, a33, a34, a35, a36, a37, a38, a39, a40, a41, a42, a43, a44, a45, a46, a47, a48, a49, a50]\n",
     parsed |-> [ok |-> TRUE, nodes |-> << [kind |-> "FunctionDef", name |-> "other", lineno |-> 1, end_lineno |-> 2, imports |-> << >>] >>],
     matches |-> << >>]

F_probe ==
    [path |-> "/w/gamma/probe.py", readable |-> TRUE,
     text |-> "def probe():\n    return [a01, a02, a03, a04, a05, a06, a07, a08, a09, a10, a11, a12, a13, a14, a15, a16, a17, a18, a19, a20, a21, a22, a23, a24, a25, a26, a27, a28, a29, a30, a31, a32, a33, a34, a35, a36, a37, a38, a39, a40, a41, a42, a43, a44, a45, a46, a47, a48, a49, a50, ztest]\n",
     parsed |-> [ok |-> TRUE, nodes |-> << [kind |-> "FunctionDef", name |-> "probe", lineno |-> 1, end_lineno |-> 2, imports |-> << >>] >>],
     matches |-> << >>]

\* the files under the scanned directory
FileSystem ==
    {F_util, F_broken, F_calc, F_gone, F_app, F_empty, F_libutil, F_main, F_hack, F_lib,
     F_notes, F_gap, F_check, F_old, F_arrow, F_big1, F_big2, F_probe}

\* the file at a path
FileAt(path) == CHOOSE f \in FileSystem : f.path = path

\* a configuration that filters nothing out of the files of the model
OpenConfig ==
    [min_quality |-> 1, min_lines |-> 1, max_lines |-> 10, skip_tests |-> FALSE,
     deduplicate |-> TRUE, parallel_scan |-> TRUE, max_workers |-> 4]

SeqRange(xs) == {xs[k] : k \in 1..Len(xs)}

\* the fragments a unit returns
Extracted(file, project_name) == extract_from_file(file, project_name, OpenConfig, 0)[1]

\* every fragment the files of the model can yield
AllFragments ==
    UNION {SeqRange(Extracted(t[1], t[2])) :
        t \in {<< F_util, "alpha" >>, << F_libutil, "alpha" >>, << F_calc, "beta" >>,
                << F_app, "alpha" >>, << F_hack, "beta" >>, << F_gap, "beta" >>,
                << F_check, "alpha" >>, << F_arrow, "alpha" >>, << F_big1, "gamma" >>,
                << F_big2, "gamma" >>, << F_probe, "gamma" >>}}

\* semantic_hash of the code of every fragment of the model, computed once
SemanticMemo == [code \in {f.code : f \in AllFragments} |-> semantic_hash(code)]

\* Fragment.compute_embedding_hash: the digest it returns and stores in embedding_hash
compute_embedding_hash(frag) ==
    IF frag.code \in DOMAIN SemanticMemo THEN SemanticMemo[frag.code]
    ELSE semantic_hash(frag.code)

-----------------------------------------------------------------------------
(* extractor.py: deduplication                                             *)

\* the loop of deduplicate_fragments from fragment i on
RECURSIVE DedupLoop(_, _, _, _, _)

\* the turn of the loop for a fragment whose code_hash is new, sem being what
\* compute_embedding_hash returned for it
DedupSemantic(fragments, i, seen_exact, seen_semantic, unique, sem) ==
    IF sem \in seen_semantic
    THEN DedupLoop(fragments, i + 1, seen_exact, seen_semantic, unique)
    ELSE DedupLoop(fragments, i + 1, seen_exact \cup {code_hash(fragments[i])},
                   seen_semantic \cup {sem},
                   Append(unique, [fragments[i] EXCEPT !.embedding_hash = sem]))

DedupLoop(fragments, i, seen_exact, seen_semantic, unique) ==
    IF i > Len(fragments) THEN unique
    ELSE IF code_hash(fragments[i]) \in seen_exact
    THEN DedupLoop(fragments, i + 1, seen_exact, seen_semantic, unique)
    ELSE DedupSemantic(fragments, i, seen_exact, seen_semantic, unique,
                       compute_embedding_hash(fragments[i]))

\* a deduplicator that takes a fragment whose embedding_hash is already set for seen
DedupCachedSeen(fragments) ==
    DedupLoop(fragments, 1, {}, {compute_embedding_hash(fragments[k]) :
                k \in {j \in 1..Len(fragments) : fragments[j].embedding_hash # NoHash}}, << >>)

\* a deduplicator that never records what it has seen
RECURSIVE DedupForgetful(_)
DedupForgetful(fragments) ==
    IF Len(fragments) = 0 THEN << >>
    ELSE << [fragments[1] EXCEPT !.embedding_hash = compute_embedding_hash(fragments[1])] >>
         \o DedupForgetful(Tail(fragments))

\* a deduplicator without the semantic tier
RECURSIVE DedupExactLoop(_, _, _, _)
DedupExactLoop(fragments, i, seen_exact, unique) ==
    IF i > Len(fragments) THEN unique
    ELSE IF code_hash(fragments[i]) \in seen_exact
    THEN DedupExactLoop(fragments, i + 1, seen_exact, unique)
    ELSE DedupExactLoop(fragments, i + 1, seen_exact \cup {code_hash(fragments[i])},
                        Append(unique, [fragments[i] EXCEPT !.embedding_hash =
                                            compute_embedding_hash(fragments[i])]))

DedupExactOnly(fragments) == DedupExactLoop(fragments, 1, {}, << >>)

Reverse(xs) == [k \in 1..Len(xs) |-> xs[Len(xs) + 1 - k]]

\* a deduplicator in which the last occurrence wins
DedupLastWins(fragments) == Reverse(DedupLoop(Reverse(fragments), 1, {}, {}, << >>))

\* a deduplicator whose loop starts at the second fragment
DedupFromSecond(fragments) == DedupLoop(fragments, 2, {}, {}, << >>)

\* a deduplicator that tags the fragments it keeps
DedupTagging(fragments) ==
    LET unique == DedupLoop(fragments, 1, {}, {}, << >>)
    IN  [k \in 1..Len(unique) |-> [unique[k] EXCEPT !.tags = << "unique" >>]]

deduplicate_fragments(fragments) == DedupLoop(fragments, 1, {}, {}, << >>)

-----------------------------------------------------------------------------
(* Inputs and idle values                                                  *)

\* all sequences over S of length at most n
BoundedSeq(S, n) == UNION {[1..k -> S] : k \in 0..n}

\* Config(): the fields extraction reads, with the defaults of the dataclass
DefaultConfig ==
    [min_quality |-> 5, min_lines |-> 5, max_lines |-> 500, skip_tests |-> FALSE,
     deduplicate |-> TRUE, parallel_scan |-> TRUE, max_workers |-> 4]

\* q_ret before the scorer has returned
NoRet == << >>

IdleScore == q_code = "" /\ q_lang = "" /\ q_type = "" /\ q_ret = NoRet

IdleDedup == d_in = << >> /\ d_out = << >>

IdleBlock == b_lines = << >> /\ b_start = 0 /\ b_ret = NoRet

IdleRun ==
    /\ config = DefaultConfig /\ projects = << >> /\ pc = "idle"
    /\ next_unit = 0 /\ running = {} /\ finished = << >> /\ collected = {} /\ crashed = {}
    /\ files_read = {} /\ all_fragments = << >> /\ result = [status |-> "none", fragments |-> << >>]

-----------------------------------------------------------------------------
(* SpecScore: one call of assess_quality_enhanced on a text made of lines   *)
(* of ScoreLines                                                            *)

MaxScoreLines == 2

DeepLine ==
    "                         print([x for x in y if a or b if c or d if e or f if g if h if i if j if k if l if m if n])  # TODO"

ScoreLines ==
    {"", "   ", "# Just a comment", "x = 5",
     "# async export test", "if x or y: try",
     "export async function f(a) { return a && b || c ? 1 : 2; } // spec",
     DeepLine}

\* n copies of s, one after the other
RECURSIVE Repeat(_, _)
Repeat(s, n) ==
    IF n = 0 THEN "" ELSE IF n = 1 THEN s
    ELSE Repeat(s, n \div 2) \o Repeat(s, n - n \div 2)

\* line counts on both sides of every edge of the bands of "Line count scoring"
LongLineCounts == {4, 5, 9, 10, 50, 51, 100, 101, 200, 201}

LongCodes == {Repeat("x = 5\n", n) : n \in LongLineCounts}

ScoreCodes == {Join(ls, "\n") : ls \in BoundedSeq(ScoreLines, MaxScoreLines)}

ScoreLangs == {"python", "javascript", "typescript"}

ScoreTypes == {"PythonFunc", "UnitTest"}

InitScore ==
    /\ \/ q_code \in ScoreCodes /\ q_lang \in ScoreLangs /\ q_type \in ScoreTypes
       \/ q_code \in LongCodes /\ q_lang = "python" /\ q_type = "PythonFunc"
    /\ q_ret = NoRet
    /\ IdleDedup /\ IdleBlock /\ IdleRun

Assess ==
    /\ q_ret = NoRet
    /\ q_ret' = assess_quality_enhanced(q_code, q_lang, q_type)
    /\ UNCHANGED << q_code, q_lang, q_type, dedupVars, blockVars, runVars >>

NextScore == Assess

SpecScore == InitScore /\ [][NextScore]_vars

-----------------------------------------------------------------------------
(* SpecDedup: deduplicate_fragments on a list of extracted fragments, and   *)
(* again on its own output                                                  *)

MaxDedupLen == 3

DedupPool ==
    SeqRange(Extracted(F_util, "alpha")) \cup SeqRange(Extracted(F_libutil, "alpha"))
    \cup {Extracted(F_calc, "beta")[1]} \cup SeqRange(Extracted(F_app, "alpha"))
    \cup SeqRange(Extracted(F_big1, "gamma")) \cup SeqRange(Extracted(F_big2, "gamma"))

InitDedup ==
    /\ d_in \in BoundedSeq(DedupPool, MaxDedupLen) /\ d_out = << >>
    /\ IdleScore /\ IdleBlock /\ IdleRun

\* the first call, on the list drawn
Deduplicate ==
    /\ d_out = << >>
    /\ d_out' = << deduplicate_fragments(d_in) >>
    /\ UNCHANGED << d_in, scoreVars, blockVars, runVars >>

\* the second call, on the list the first call returned
DeduplicateAgain ==
    /\ Len(d_out) = 1
    /\ d_out' = Append(d_out, deduplicate_fragments(d_out[1]))
    /\ UNCHANGED << d_in, scoreVars, blockVars, runVars >>

NextDedup == Deduplicate \/ DeduplicateAgain

SpecDedup == InitDedup /\ [][NextDedup]_vars

-----------------------------------------------------------------------------
(* SpecBlock: one call of extract_js_block on lines of BlockLines           *)

MaxBlockLen == 3

BlockLines ==
    {"function f() {", "}", "  return 1;", "function g() { return 1; }", "}{"}

InitBlock ==
    /\ b_lines \in BoundedSeq(BlockLines, MaxBlockLen) /\ b_start \in 0..Len(b_lines)
    /\ b_ret = NoRet
    /\ IdleScore /\ IdleDedup /\ IdleRun

ScanBlock ==
    /\ b_ret = NoRet
    /\ b_ret' = extract_js_block(b_lines, b_start)
    /\ UNCHANGED << b_lines, b_start, scoreVars, dedupVars, runVars >>

NextBlock == ScanBlock

SpecBlock == InitBlock /\ [][NextBlock]_vars

\* C1: whatever the text, the language and the fragment kind, the score the scorer
\* returns is an integer from 1 to 10.
ScoreInRange == q_ret # NoRet => q_ret[1] \in 1..10 /\ q_ret[2].final_score = q_ret[1]

\* the adjustments of the returned call add up to less than 1
ScoreWitnessClamped ==
    q_ret # NoRet /\ RawAssessment(q_code, q_lang, q_type)[1] < 1 /\ q_ret[1] = 1

-----------------------------------------------------------------------------
(* Deduplication: C7..C10                                                  *)

\* the list the k-th call of deduplicate_fragments was given
DedupInput(k) == IF k = 1 THEN d_in ELSE d_out[k - 1]

\* the same Fragment object, whatever compute_embedding_hash has stored in it
SameFragment(a, b) == [a EXCEPT !.embedding_hash = NoHash] = [b EXCEPT !.embedding_hash = NoHash]

\* the elements of xs at the positions S, in the order of xs
Restrict(xs, S) ==
    [k \in 1..Cardinality(S) |-> xs[CHOOSE i \in S : Cardinality({j \in S : j < i}) = k - 1]]

\* C7: deduplication is idempotent: given the list it returned, deduplicate_fragments
\* returns that list again, the same fragments in the same order.
DedupIdempotent == Len(d_out) = 2 => d_out[2] = d_out[1]

\* the second call has run on a list the first call had shortened
DedupIdempotentWitness ==
    Len(d_out) = 2 /\ Len(d_out[1]) < Len(d_in) /\ Len(d_out[1]) >= 2 /\ d_out[2] = d_out[1]

\* C8: no two fragments of a list deduplicate_fragments returns have the same content
\* hash; given two fragments with identical code it returns exactly one.
DedupExactTier ==
    \A k \in 1..Len(d_out) :
        /\ \A i, j \in 1..Len(d_out[k]) :
               i < j => code_hash(d_out[k][i]) # code_hash(d_out[k][j])
        /\ LET given == DedupInput(k)
           IN  Len(given) = 2 /\ given[1].code = given[2].code => Len(d_out[k]) = 1

\* two fragments of different files with identical code went in, one came out
DedupExactWitness ==
    /\ Len(d_out) >= 1 /\ Len(d_in) = 2
    /\ d_in[1].code = d_in[2].code /\ d_in[1].file # d_in[2].file
    /\ Len(d_out[1]) = 1

\* C9: no two fragments of a list deduplicate_fragments returns have the same semantic
\* fingerprint; given two fragments with the same fingerprint and different code it
\* returns exactly one.
DedupSemanticTier ==
    \A k \in 1..Len(d_out) :
        /\ \A i, j \in 1..Len(d_out[k]) :
               i < j => compute_embedding_hash(d_out[k][i]) # compute_embedding_hash(d_out[k][j])
        /\ LET given == DedupInput(k)
           IN  /\ Len(given) = 2 /\ given[1].code # given[2].code
               /\ compute_embedding_hash(given[1]) = compute_embedding_hash(given[2])
               => Len(d_out[k]) = 1

\* two fragments went in whose word sets differ beyond the first 50 sorted words only,
\* one came out
DedupSemanticWitness ==
    /\ Len(d_out) >= 1 /\ Len(d_in) = 2
    /\ Words(Lower(d_in[1].code)) # Words(Lower(d_in[2].code))
    /\ compute_embedding_hash(d_in[1]) = compute_embedding_hash(d_in[2])
    /\ Len(d_out[1]) = 1

\* C10: the first occurrence wins: the list returned is the list given with some
\* positions left out, and for each position left out an earlier position that was kept
\* holds a fragment with the same content hash or the same semantic fingerprint.
DedupFirstWins ==
    \A k \in 1..Len(d_out) :
        LET given == DedupInput(k)
        IN  \E S \in SUBSET (1..Len(given)) :
                /\ Len(d_out[k]) = Cardinality(S)
                /\ \A n \in 1..Len(d_out[k]) : SameFragment(d_out[k][n], Restrict(given, S)[n])
                /\ \A i \in (1..Len(given)) \ S :
                       \E j \in S :
                           /\ j < i
                           /\ \/ code_hash(given[j]) = code_hash(given[i])
                              \/ compute_embedding_hash(given[j]) = compute_embedding_hash(given[i])

\* a fragment was left out whose code differs from that of every fragment kept, between
\* two fragments that were kept
DedupFirstWinsWitness ==
    /\ Len(d_out) >= 1 /\ Len(d_in) = 3 /\ Len(d_out[1]) = 2
    /\ SameFragment(d_out[1][1], d_in[1]) /\ SameFragment(d_out[1][2], d_in[3])
    /\ d_in[2].code # d_in[1].code

-----------------------------------------------------------------------------
(* Spec: one call of extract_fragments                                      *)

\* the sort key of extract_fragments: (quality, lines)
KeyGE(a, b) == a.quality > b.quality \/ (a.quality = b.quality /\ a.lines >= b.lines)

\* list.sort(key, reverse=True): stable, so fragments with equal keys keep their order
RECURSIVE SortLoop(_, _, _)
SortLoop(fragments, i, sorted) ==
    IF i > Len(fragments) THEN sorted
    ELSE LET x == fragments[i]
             n == Cardinality({k \in 1..Len(sorted) : KeyGE(sorted[k], x)})
         IN  SortLoop(fragments, i + 1,
                      SubSeq(sorted, 1, n) \o << x >> \o SubSeq(sorted, n + 1, Len(sorted)))

\* a sort that compares the quality only
RECURSIVE SortQualityLoop(_, _, _)
SortQualityLoop(fragments, i, sorted) ==
    IF i > Len(fragments) THEN sorted
    ELSE LET x == fragments[i]
             n == Cardinality({k \in 1..Len(sorted) : sorted[k].quality >= x.quality})
         IN  SortQualityLoop(fragments, i + 1,
                             SubSeq(sorted, 1, n) \o << x >> \o SubSeq(sorted, n + 1, Len(sorted)))

SortByQualityOnly(fragments) == SortQualityLoop(fragments, 1, << >>)

SortFragments(fragments) == SortLoop(fragments, 1, << >>)

\* [f for f in all_fragments if not f.has_tests]
RECURSIVE WithoutTests(_)
WithoutTests(fragments) ==
    IF Len(fragments) = 0 THEN << >>
    ELSE (IF fragments[1].has_tests THEN << >> ELSE << fragments[1] >>)
         \o WithoutTests(Tail(fragments))

\* the units of work in the order of the loops: project by project, file by file
RECURSIVE Units(_)
Units(ps) ==
    IF Len(ps) = 0 THEN << >>
    ELSE [k \in 1..Len(ps[1].code_files) |->
             [project |-> ps[1].name, file |-> FileAt(ps[1].code_files[k])]]
         \o Units(Tail(ps))

\* total_files
TotalFiles(ps) == SumSeq([k \in 1..Len(ps) |-> Len(ps[k].code_files)])

ParallelThreshold == 10

\* the parallel branch taken for ten files already
UsesPoolFromTen(ps, cfg) == cfg.parallel_scan /\ TotalFiles(ps) >= ParallelThreshold

\* the condition of the parallel branch
UsesPool(ps, cfg) == cfg.parallel_scan /\ TotalFiles(ps) > ParallelThreshold

MaxFault == 2

MaxCrashes == 1

\* futures that are done and that as_completed has not handed over yet
MaxPending == 1

BaseConfig ==
    [min_quality |-> 5, min_lines |-> 2, max_lines |-> 10, skip_tests |-> FALSE,
     deduplicate |-> TRUE, parallel_scan |-> TRUE, max_workers |-> 2]

SmallProjects ==
    << [name |-> "alpha",
        code_files |-> << F_util.path, F_libutil.path, F_app.path, F_check.path >>],
       [name |-> "beta",
        code_files |-> << F_calc.path, F_hack.path, F_gap.path, F_old.path >>],
       [name |-> "gamma", code_files |-> << F_probe.path, F_big2.path >>] >>

BigProjects ==
    << [name |-> "alpha",
        code_files |-> << F_util.path, F_broken.path, F_gone.path, F_app.path, F_empty.path,
                          F_main.path >>],
       [name |-> "beta",
        code_files |-> << F_calc.path, F_hack.path, F_lib.path, F_notes.path, F_big1.path >>] >>

\* one file with a line that two of the patterns of extract_js_fragments match
ArrowProjects == << [name |-> "alpha", code_files |-> << F_arrow.path >>] >>

\* ten files: the most that extract_fragments_parallel scans sequentially
TenProjects ==
    << [name |-> "alpha",
        code_files |-> << F_util.path, F_broken.path, F_gone.path, F_app.path, F_empty.path,
                          F_main.path >>],
       [name |-> "beta",
        code_files |-> << F_calc.path, F_hack.path, F_lib.path, F_notes.path >>] >>

\* configurations Config.validate() finds issues in
InvalidConfigs ==
    {[BaseConfig EXCEPT !.min_lines = 5, !.max_lines = 3],
     [BaseConfig EXCEPT !.min_quality = 0],
     [BaseConfig EXCEPT !.min_quality = 11],
     [BaseConfig EXCEPT !.max_workers = 0]}

SmallConfigs ==
    {[BaseConfig EXCEPT !.skip_tests = s, !.deduplicate = d, !.min_quality = q] :
        s \in BOOLEAN, d \in BOOLEAN, q \in {1, 5}}
    \cup {[BaseConfig EXCEPT !.min_lines = 3],
          [BaseConfig EXCEPT !.min_lines = 1, !.min_quality = 1]}
    \cup InvalidConfigs

BigConfigs ==
    {BaseConfig,
     [BaseConfig EXCEPT !.deduplicate = FALSE, !.skip_tests = TRUE, !.max_workers = 1],
     [BaseConfig EXCEPT !.parallel_scan = FALSE],
     [BaseConfig EXCEPT !.max_workers = 0]}

\* the calls of extract_fragments the model makes
RunPool ==
    {[projects |-> SmallProjects, config |-> c] : c \in SmallConfigs}
    \cup {[projects |-> BigProjects, config |-> c] : c \in BigConfigs}
    \cup {[projects |-> TenProjects, config |-> BaseConfig]}
    \cup {[projects |-> ArrowProjects, config |-> c] :
             c \in {BaseConfig, [BaseConfig EXCEPT !.deduplicate = FALSE]}}
    \cup {[projects |-> << >>, config |-> BaseConfig]}

\* what of a call decides the outcome of a unit
UnitKey(unit, cfg, fault) ==
    << unit.file.path, unit.project, cfg.min_quality, cfg.min_lines, cfg.max_lines, fault >>

\* the keys of the units of the calls the model makes
UnitKeys ==
    {UnitKey(Units(t[1].projects)[t[2]], t[1].config, t[3]) :
        t \in {t \in RunPool \X (1..ParallelThreshold + 1) \X (0..MaxFault) :
                  t[2] <= Len(Units(t[1].projects))}}

\* extract_from_file for every unit of the model, computed once
UnitMemo ==
    [k \in UnitKeys |->
        extract_from_file(FileAt(k[1]), k[2],
                          [BaseConfig EXCEPT !.min_quality = k[3], !.min_lines = k[4],
                                             !.max_lines = k[5]],
                          k[6])]

\* extract_from_file(Path(file_path), project, config), the scorer raising in its call
\* number fault (never, if fault = 0): << fragments returned, an exception was raised >>
RunUnit(unit, cfg, fault) == UnitMemo[UnitKey(unit, cfg, fault)]

NumUnits == Len(Units(projects))

\* the units in which an exception was raised by the scorer
Injected == {u \in crashed : ~RunUnit(Units(projects)[u], config, 0)[2]}

\* the faults that may strike unit u now
Faults(u) ==
    {fault \in 0..MaxFault :
        fault > 0 => /\ Cardinality(Injected) < MaxCrashes
                     /\ ~RunUnit(Units(projects)[u], config, 0)[2]
                     /\ RunUnit(Units(projects)[u], config, fault)[2]}

NoResult == [status |-> "none", fragments |-> << >>]

Init ==
    /\ \E r \in RunPool : projects = r.projects /\ config = r.config
    /\ pc = "start"
    /\ next_unit = 1 /\ running = {} /\ finished = << >> /\ collected = {} /\ crashed = {}
    /\ files_read = {} /\ all_fragments = << >> /\ result = NoResult
    /\ IdleScore /\ IdleDedup /\ IdleBlock

\* extract_fragments calls extract_fragments_parallel, which takes the parallel branch
\* and creates the pool (ThreadPoolExecutor raises ValueError for max_workers <= 0) and
\* submits every unit, or takes the sequential branch
Begin ==
    /\ pc = "start"
    /\ IF UsesPool(projects, config)
       THEN IF config.max_workers <= 0
            THEN pc' = "raised" /\ result' = [status |-> "ValueError", fragments |-> << >>]
            ELSE pc' = "pool" /\ UNCHANGED result
       ELSE pc' = "sequential" /\ UNCHANGED result
    /\ UNCHANGED << config, projects, next_unit, running, finished, collected, crashed,
                    files_read, all_fragments, scoreVars, dedupVars, blockVars >>

\* the next unit starts whether a worker is free or not
StartUnitUnbounded ==
    /\ pc = "pool"
    /\ next_unit <= NumUnits
    /\ running' = running \cup {next_unit}
    /\ next_unit' = next_unit + 1
    /\ files_read' = files_read \cup {Units(projects)[next_unit].file.path}
    /\ UNCHANGED << config, projects, pc, finished, collected, crashed, all_fragments, result,
                    scoreVars, dedupVars, blockVars >>

\* a free worker takes the next unit off the queue and reads its file
StartUnit ==
    /\ pc = "pool"
    /\ next_unit <= NumUnits
    /\ Cardinality(running) < config.max_workers
    /\ running' = running \cup {next_unit}
    /\ next_unit' = next_unit + 1
    /\ files_read' = files_read \cup {Units(projects)[next_unit].file.path}
    /\ UNCHANGED << config, projects, pc, finished, collected, crashed, all_fragments, result,
                    scoreVars, dedupVars, blockVars >>

\* a worker that extends the list of the caller itself
FinishUnitAppending(u, fault) ==
    /\ pc = "pool"
    /\ u \in running
    /\ Cardinality(DOMAIN finished \ collected) < MaxPending
    /\ fault \in Faults(u)
    /\ LET got == RunUnit(Units(projects)[u], config, fault)
       IN  /\ finished' = finished @@ (u :> got[1])
           /\ crashed' = IF got[2] THEN crashed \cup {u} ELSE crashed
           /\ all_fragments' = all_fragments \o got[1]
    /\ running' = running \ {u}
    /\ UNCHANGED << config, projects, pc, next_unit, collected, files_read,
                    result, scoreVars, dedupVars, blockVars >>

\* a worker returns from extract_from_file: the future holds the list returned
FinishUnit(u, fault) ==
    /\ pc = "pool"
    /\ u \in running
    /\ Cardinality(DOMAIN finished \ collected) < MaxPending
    /\ fault \in Faults(u)
    /\ LET got == RunUnit(Units(projects)[u], config, fault)
       IN  /\ finished' = finished @@ (u :> got[1])
           /\ crashed' = IF got[2] THEN crashed \cup {u} ELSE crashed
    /\ running' = running \ {u}
    /\ UNCHANGED << config, projects, pc, next_unit, collected, files_read, all_fragments,
                    result, scoreVars, dedupVars, blockVars >>

\* as_completed hands a finished future to the caller, who extends all_fragments
Collect(u) ==
    /\ pc = "pool"
    /\ u \in DOMAIN finished
    /\ u \notin collected
    /\ all_fragments' = all_fragments \o finished[u]
    /\ collected' = collected \cup {u}
    /\ UNCHANGED << config, projects, pc, next_unit, running, finished, crashed, files_read,
                    result, scoreVars, dedupVars, blockVars >>

\* the pool is left as soon as no unit is queued or running, collected or not
ExitPoolEarly ==
    /\ pc = "pool"
    /\ next_unit > NumUnits /\ running = {}
    /\ pc' = "aggregated"
    /\ UNCHANGED << config, projects, next_unit, running, finished, collected, crashed,
                    files_read, all_fragments, result, scoreVars, dedupVars, blockVars >>

\* as_completed is exhausted and the with block closes the pool
ExitPool ==
    /\ pc = "pool"
    /\ collected = 1..NumUnits
    /\ pc' = "aggregated"
    /\ UNCHANGED << config, projects, next_unit, running, finished, collected, crashed,
                    files_read, all_fragments, result, scoreVars, dedupVars, blockVars >>

\* one turn of the sequential loops
RunSequential(fault) ==
    /\ pc = "sequential"
    /\ next_unit <= NumUnits
    /\ fault \in Faults(next_unit)
    /\ LET got == RunUnit(Units(projects)[next_unit], config, fault)
       IN  /\ all_fragments' = all_fragments \o got[1]
           /\ crashed' = IF got[2] THEN crashed \cup {next_unit} ELSE crashed
    /\ files_read' = files_read \cup {Units(projects)[next_unit].file.path}
    /\ next_unit' = next_unit + 1
    /\ UNCHANGED << config, projects, pc, running, finished, collected, result,
                    scoreVars, dedupVars, blockVars >>

\* the sequential loops end
EndSequential ==
    /\ pc = "sequential"
    /\ next_unit > NumUnits
    /\ pc' = "aggregated"
    /\ UNCHANGED << config, projects, next_unit, running, finished, collected, crashed,
                    files_read, all_fragments, result, scoreVars, dedupVars, blockVars >>

\* the test filter applied before the deduplication, in its place
DedupStepAfterFilter ==
    /\ pc = "aggregated"
    /\ all_fragments' =
          IF config.deduplicate
          THEN deduplicate_fragments(IF config.skip_tests THEN WithoutTests(all_fragments)
                                     ELSE all_fragments)
          ELSE IF config.skip_tests THEN WithoutTests(all_fragments) ELSE all_fragments
    /\ pc' = "deduped"
    /\ UNCHANGED << config, projects, next_unit, running, finished, collected, crashed,
                    files_read, result, scoreVars, dedupVars, blockVars >>

\* "Deduplicate if configured"
DedupStep ==
    /\ pc = "aggregated"
    /\ all_fragments' = IF config.deduplicate THEN deduplicate_fragments(all_fragments)
                        ELSE all_fragments
    /\ pc' = "deduped"
    /\ UNCHANGED << config, projects, next_unit, running, finished, collected, crashed,
                    files_read, result, scoreVars, dedupVars, blockVars >>

\* "Filter tests if configured"
FilterStep ==
    /\ pc = "deduped"
    /\ all_fragments' = IF config.skip_tests THEN WithoutTests(all_fragments) ELSE all_fragments
    /\ pc' = "filtered"
    /\ UNCHANGED << config, projects, next_unit, running, finished, collected, crashed,
                    files_read, result, scoreVars, dedupVars, blockVars >>

\* extract_fragments sorts what extract_fragments_parallel returned and returns the
\* ExtractionResult; all_fragments keeps the list as it was returned to it
SortStep ==
    /\ pc = "filtered"
    /\ result' = [status |-> "ok", fragments |-> SortFragments(all_fragments)]
    /\ pc' = "done"
    /\ UNCHANGED << config, projects, next_unit, running, finished, collected, crashed,
                    files_read, all_fragments, scoreVars, dedupVars, blockVars >>

Next ==
    \/ Begin
    \/ StartUnit
    \/ \E u \in running, fault \in 0..MaxFault : FinishUnit(u, fault)
    \/ \E u \in DOMAIN finished : Collect(u)
    \/ ExitPool
    \/ \E fault \in 0..MaxFault : RunSequential(fault)
    \/ EndSequential
    \/ DedupStep
    \/ FilterStep
    \/ SortStep

Spec == Init /\ [][Next]_vars

-----------------------------------------------------------------------------
(* extract_fragments: the result                                            *)

\* the call has returned an ExtractionResult
Returned == pc = "done" /\ result.status = "ok"

\* C3: the fragments extract_fragments returns are in descending order of quality and,
\* where the quality is equal, in descending order of lines: every adjacent pair (a, b)
\* has a.quality > b.quality, or a.quality = b.quality and a.lines >= b.lines
ResultSorted ==
    Returned =>
        \A k \in 1..Len(result.fragments) - 1 :
            KeyGE(result.fragments[k], result.fragments[k + 1])

\* a call returned three fragments or more, two of them of equal quality, and the list
\* it sorted had a fragment of that quality with fewer lines before one with more
ResultSortedWitness ==
    /\ Returned
    /\ Len(result.fragments) >= 3
    /\ \E i, j \in 1..Len(all_fragments) :
          /\ i < j
          /\ all_fragments[i].quality = all_fragments[j].quality
          /\ all_fragments[i].lines < all_fragments[j].lines
    /\ \E k \in 1..Len(result.fragments) - 1 :
          result.fragments[k].quality > result.fragments[k + 1].quality

\* the fragments of the units in the order they were submitted, none raising
RECURSIVE SubmissionOrder(_, _)
SubmissionOrder(units, cfg) ==
    IF Len(units) = 0 THEN << >>
    ELSE RunUnit(units[1], cfg, 0)[1] \o SubmissionOrder(Tail(units), cfg)

\* what extract_fragments returns when the units complete in the order submitted
InOrderResult(ps, cfg) ==
    LET aggregate == SubmissionOrder(Units(ps), cfg)
        deduped == IF cfg.deduplicate THEN deduplicate_fragments(aggregate) ELSE aggregate
        filtered == IF cfg.skip_tests THEN WithoutTests(deduped) ELSE deduped
    IN  SortFragments(filtered)

\* C4: in parallel mode the sequence of fragments extract_fragments returns is the same
\* under every completion order of the units: it is the sequence returned when the
\* units complete in the order they were submitted
ResultIndependentOfCompletionOrder ==
    (Returned /\ UsesPool(projects, config) /\ Injected = {}) =>
        result.fragments = InOrderResult(projects, config)

\* the fragments of unit u in a list
OfUnit(fragments, u) ==
    {k \in 1..Len(fragments) :
        /\ fragments[k].file = Units(projects)[u].file.path
        /\ fragments[k].project = Units(projects)[u].project}

\* C5: a unit in which an exception was raised contributes no fragment to the aggregate,
\* not a part of its list, and every other unit has run and its fragments are in the
\* aggregate, in sequential and in parallel mode
FailedUnitContributesNothing ==
    pc = "aggregated" =>
        /\ \A u \in crashed : OfUnit(all_fragments, u) = {}
        /\ \A u \in (1..NumUnits) \ crashed :
              LET got == RunUnit(Units(projects)[u], config, 0)[1]
              IN  \A k \in 1..Len(got) : \E n \in 1..Len(all_fragments) : all_fragments[n] = got[k]

\* C6: a call with a configuration Config.validate() finds issues in fails before any
\* unit starts: no file is read and no result is produced
InvalidConfigFailsEarly ==
    validate(config) # {} => (files_read = {} /\ result.status # "ok")

\* every fragment a unit has returned, the caller has aggregated or the call has returned
FragmentsSeen ==
    SeqRange(all_fragments) \cup SeqRange(result.fragments)
    \cup UNION {SeqRange(finished[u]) : u \in DOMAIN finished}

\* C11: every fragment built by either extractor, and every fragment of a result, has
\* a quality from 1 to 10, a 1-based start_line >= 1 and an end_line >= start_line
FragmentsWellFormed ==
    \A f \in FragmentsSeen :
        /\ 1 <= f.quality /\ f.quality <= 10
        /\ f.start_line >= 1
        /\ f.end_line >= f.start_line

\* a call has returned fragments of both extractors, one of them on a single line and
\* one of them starting after the first line of its file
FragmentsWellFormedWitness ==
    /\ Returned
    /\ \E f, g, h \in SeqRange(result.fragments) :
          /\ f.type = "PythonFunc" /\ f.start_line > 1 /\ f.end_line > f.start_line
          /\ g.type = "JS/Function" /\ g.end_line > g.start_line
          /\ h.end_line = h.start_line

\* the uids of the fragments of a list
Uids(fragments) == {fragments[k].uid : k \in 1..Len(fragments)}

\* C12: two calls over the same projects and configuration return the same set of uids,
\* in sequential or parallel mode and under any scheduling of the units: the set of uids
\* of every result is that of the call whose units complete in the order submitted
UidsReproducible ==
    (Returned /\ Injected = {}) =>
        Uids(result.fragments) = Uids(InOrderResult(projects, config))

\* C13: two fragments extracted from different (project name, file path, start line)
\* triples never have the same uid, two files of the same base name in different
\* directories of one project included
UidKeysPosition ==
    \A f, g \in FragmentsSeen :
        << f.project, f.file, f.start_line >> # << g.project, g.file, g.start_line >>
            => f.uid # g.uid

\* C14: a block becomes a fragment only if the count n of its non-blank lines satisfies
\* min_lines <= n <= max_lines, in both dialects, however many blank lines it holds
FilterCountsNonBlankLines ==
    \A f \in FragmentsSeen :
        /\ config.min_lines <= CodeLineCount(f.code)
        /\ CodeLineCount(f.code) <= config.max_lines

\* C15: the field lines of every fragment is the number of the non-blank lines of its
\* code, the line_count the scorer computed for the block
LinesIsNonBlankCount ==
    \A f \in FragmentsSeen : f.lines = CodeLineCount(f.code)

\* metrics['is_test'] of the scorer for the block of a fragment, called as the
\* extractor of the fragment's dialect calls it
ClassifiedAsTest(f) ==
    IF StartsWith(f.type, "JS/")
    THEN Get(assess_quality_enhanced(f.code, "javascript", SubSeq(f.type, 4, Len(f.type)))[2], "is_test", FALSE)
    ELSE Get(assess_quality_enhanced(f.code, "python", f.type)[2], "is_test", FALSE)

\* C16: with config.skip_tests the result holds no fragment whose block the scorer
\* classified as a test, whichever dialect it came from
NoTestFragmentsWhenSkipped ==
    (Returned /\ config.skip_tests) =>
        \A f \in SeqRange(result.fragments) : ~ClassifiedAsTest(f)

\* C17: every fragment of the result has quality >= config.min_quality: a block scored
\* below min_quality never becomes a fragment, in either dialect
QualityAtLeastMin ==
    \A f \in FragmentsSeen : f.quality >= config.min_quality

\* a call has returned fragments after running, without an exception, a unit with a
\* block that is scored below min_quality
QualityAtLeastMinWitness ==
    /\ Returned
    /\ result.fragments # << >>
    /\ \E u \in (1..NumUnits) \ crashed :
          \E f \in SeqRange(Extracted(Units(projects)[u].file, Units(projects)[u].project)) :
              /\ f.quality < config.min_quality
              /\ f.lines >= config.min_lines

\* the files of the first p - 1 projects and the first i files of project p
FilesUpTo(p, i) ==
    UNION {SeqRange(projects[j].code_files) : j \in 1..(p - 1)}
    \cup {projects[p].code_files[k] : k \in 1..i}

\* C18: units run on the worker pool exactly when config.parallel_scan is true and the
\* projects hold more than 10 files in total; otherwise no unit is ever on the pool and
\* the files are read one after the other, project by project and file by file
PoolExactlyWhenParallelAndOverTen ==
    LET parallel == config.parallel_scan /\ TotalFiles(projects) > 10
        on_pool  == running # {} \/ DOMAIN finished # {} \/ collected # {}
    IN  /\ pc = "pool" => parallel
        /\ pc = "sequential" => ~parallel
        /\ on_pool => parallel
        /\ (parallel /\ files_read # {}) => on_pool
        /\ (~parallel /\ files_read # {}) =>
              \E p \in 1..Len(projects) : \E i \in 1..Len(projects[p].code_files) :
                  files_read = FilesUpTo(p, i)

\* ten files with parallel_scan on: all of them were read sequentially
PoolExactlyWitness ==
    /\ config.parallel_scan /\ TotalFiles(projects) = 10
    /\ pc = "sequential" /\ next_unit > NumUnits
    /\ Cardinality(files_read) = 10

\* C19: compute_documentation_ratio returns exactly 0.0 for a text without non-blank
\* lines, and for every other text comment lines / non-blank lines with
\* 0 <= comment lines <= non-blank lines: the ratio is within [0.0, 1.0] and no
\* division by zero occurs
DocRatioWithinUnit ==
    q_ret # NoRet =>
        LET r == q_ret[2].doc_ratio
            code_lines == CodeLineCount(q_code)
            doc_lines == DocLineCount(q_code, q_lang)
        IN  /\ r = compute_documentation_ratio(q_code, q_lang)
            /\ r # ZeroDivisionError /\ r[2] > 0
            /\ code_lines = 0 => r = << 0, 1 >>
            /\ code_lines > 0 =>
                  /\ 0 <= doc_lines /\ doc_lines <= code_lines
                  /\ r[1] * code_lines = doc_lines * r[2]
            /\ 0 <= r[1] /\ r[1] <= r[2]

\* the scorer has returned for a text of blank lines only
DocRatioWitnessBlank ==
    /\ q_ret # NoRet
    /\ Len(q_code) > 0 /\ CodeLineCount(q_code) = 0
    /\ q_ret[2].doc_ratio = << 0, 1 >>

\* the suffixes extract_from_file has an extractor for
SupportedSuffixes == {".py", ".js", ".jsx", ".ts", ".tsx"}

\* a file extract_from_file has no text or no extractor for
NothingToExtract(file) ==
    \/ ~file.readable
    \/ file.text = ""
    \/ PathSuffix(file.path) \notin SupportedSuffixes

\* C20: a file whose suffix is none of .py, .js, .jsx, .ts, .tsx, whose text cannot be
\* read or whose text is empty yields no fragment, and neither an extractor nor the
\* scorer is invoked for it: its unit returns the empty list whichever call of the
\* scorer is set to raise, and no exception is raised in it but that of the read
NoFragmentsWithoutExtractor ==
    \A u \in 1..NumUnits :
        LET unit == Units(projects)[u]
        IN  NothingToExtract(unit.file) =>
                /\ \A f \in FragmentsSeen :
                      ~(f.file = unit.file.path /\ f.project = unit.project)
                /\ \A fault \in 0..MaxFault :
                      RunUnit(unit, config, fault) = << << >>, ~unit.file.readable >>

\* a call has returned fragments after reading a file of another suffix, a file that
\* cannot be read and an empty file
NoFragmentsWithoutExtractorWitness ==
    /\ Returned
    /\ result.fragments # << >>
    /\ \E u, v, w \in 1..NumUnits :
          /\ PathSuffix(Units(projects)[u].file.path) \notin SupportedSuffixes
          /\ Units(projects)[u].file.text # ""
          /\ ~Units(projects)[v].file.readable
          /\ Units(projects)[w].file.readable /\ Units(projects)[w].file.text = ""
          /\ {Units(projects)[u].file.path, Units(projects)[v].file.path,
              Units(projects)[w].file.path} \subseteq files_read

\* every unit has run and what it returned has been aggregated
AllUnitsAggregated ==
    next_unit > NumUnits /\ running = {} /\ DOMAIN finished = collected

\* xs holds the elements of ys, each as often as ys does
SameBag(xs, ys) ==
    /\ Len(xs) = Len(ys)
    /\ \A x \in SeqRange(xs) \cup SeqRange(ys) :
          Cardinality({k \in 1..Len(xs) : xs[k] = x})
              = Cardinality({k \in 1..Len(ys) : ys[k] = x})

\* the steps after the units: the aggregate changes only in the step that leaves
\* "aggregated", which deduplicates it if config.deduplicate, and then in the step that
\* follows, which drops the fragments with has_tests from what the first step left if
\* config.skip_tests; the result is produced by the step after these, as a rearrangement
\* of what they left, and is not changed afterwards
PostProcessingStep ==
    /\ pc' # pc =>
          /\ pc = "aggregated" => pc' = "deduped"
          /\ pc = "deduped" => pc' = "filtered"
          /\ pc = "filtered" => pc' = "done"
          /\ pc \notin {"done", "raised"}
    /\ (pc = "aggregated" /\ pc' # pc) =>
          all_fragments' = IF config.deduplicate THEN deduplicate_fragments(all_fragments)
                           ELSE all_fragments
    /\ (pc = "deduped" /\ pc' # pc) =>
          all_fragments' =
              IF config.skip_tests
              THEN Restrict(all_fragments,
                            {k \in 1..Len(all_fragments) : ~all_fragments[k].has_tests})
              ELSE all_fragments
    /\ (pc = "filtered" /\ pc' # pc) =>
          /\ all_fragments' = all_fragments
          /\ SameBag(result'.fragments, all_fragments)
    /\ (pc \in {"aggregated", "deduped"} \/ pc' = pc) => result' = result

\* C21: the steps after the units run in the order deduplicate, drop test fragments,
\* sort: none starts before the fragments of every unit are aggregated, the test filter
\* sees what survived the deduplication, and the sort is the last step to change the
\* sequence
PostProcessingInOrder ==
    /\ [](pc \in {"aggregated", "deduped", "filtered", "done"} => AllUnitsAggregated)
    /\ [][PostProcessingStep]_vars

\* a call with deduplicate and skip_tests has returned: a test fragment had a later
\* fragment of the same fingerprint that is no test, and neither is in the result
PostProcessingWitness ==
    /\ Returned /\ config.deduplicate /\ config.skip_tests /\ crashed = {}
    /\ \E u, v \in 1..NumUnits :
          /\ u < v
          /\ \E f \in SeqRange(RunUnit(Units(projects)[u], config, 0)[1]) :
             \E g \in SeqRange(RunUnit(Units(projects)[v], config, 0)[1]) :
                /\ f.has_tests /\ ~g.has_tests
                /\ compute_embedding_hash(f) = compute_embedding_hash(g)
                /\ \A h \in SeqRange(result.fragments) :
                      compute_embedding_hash(h) # compute_embedding_hash(g)

\* a step of the parallel phase: a step of a worker (a unit starts or finishes) writes
\* nothing the units share, and the aggregate changes only by the caller appending the
\* list of one finished unit it has not collected yet
ParallelPhaseStep ==
    pc = "pool" =>
        /\ config' = config /\ projects' = projects
        /\ (running' # running \/ finished' # finished) =>
              /\ all_fragments' = all_fragments /\ collected' = collected
              /\ \A u \in DOMAIN finished : u \in DOMAIN finished' /\ finished'[u] = finished[u]
        /\ all_fragments' # all_fragments =>
              \E u \in DOMAIN finished \ collected :
                  /\ all_fragments' = all_fragments \o finished[u]
                  /\ collected' = collected \cup {u}
        /\ collected' # collected =>
              \E u \in DOMAIN finished \ collected :
                  /\ all_fragments' = all_fragments \o finished[u]
                  /\ collected' = collected \cup {u}

\* C22: in the parallel phase the workers write no shared state: each returns its own
\* list, and the aggregate is appended to by the caller only, one completed unit at a
\* time, so that it holds the fragments of the collected units, none lost or spoiled
WorkersShareNothing ==
    /\ [][ParallelPhaseStep]_vars
    /\ [](pc = "pool" =>
            \A x \in SeqRange(all_fragments)
                     \cup UNION {SeqRange(finished[u]) : u \in collected} :
                Cardinality({k \in 1..Len(all_fragments) : all_fragments[k] = x})
                    = SumSeq([n \in 1..NumUnits |->
                                 IF n \in collected
                                 THEN Cardinality({k \in 1..Len(finished[n]) : finished[n][k] = x})
                                 ELSE 0]))

\* two workers are running while the caller has collected fragments of another unit
WorkersShareNothingWitness ==
    /\ pc = "pool"
    /\ Cardinality(running) = 2
    /\ collected # {} /\ all_fragments # << >>

\* C23: in parallel mode at most config.max_workers units are executing at any moment,
\* and a unit that has started occupies its worker until it has finished: the units
\* started are those running and those finished, and none is both
AtMostMaxWorkersRunning ==
    pc = "pool" =>
        /\ Cardinality(running) <= config.max_workers
        /\ running \cup DOMAIN finished = 1..(next_unit - 1)
        /\ running \cap DOMAIN finished = {}

\* every worker is busy, units wait in the queue and a unit has finished before
AtMostMaxWorkersWitness ==
    /\ pc = "pool"
    /\ Cardinality(running) = config.max_workers
    /\ next_unit <= NumUnits
    /\ DOMAIN finished # {}

\* C24: a fragment is created at most once per block: no two fragments extracted from
\* one file have the same start line, also where a line matches more than one of the
\* patterns of extract_js_fragments
OneFragmentPerBlock ==
    \A i, j \in 1..Len(all_fragments) :
        (i < j /\ all_fragments[i].file = all_fragments[j].file
               /\ all_fragments[i].project = all_fragments[j].project)
            => all_fragments[i].start_line # all_fragments[j].start_line

\* a step of deduplication, test filtering or sorting: every fragment it leaves in the
\* aggregate or puts into the result is a fragment of the aggregate before it, with
\* every field but embedding_hash as it was
PostProcessingKeepsFragments ==
    pc \in {"aggregated", "deduped", "filtered"} =>
        \A g \in SeqRange(all_fragments') \cup SeqRange(result'.fragments) :
            \E f \in SeqRange(all_fragments) : SameFragment(f, g)

\* C25: after its creation a fragment is never changed but for embedding_hash:
\* deduplication, test filtering and sorting leave every other field of every fragment
\* as it was
OnlyEmbeddingHashWritten == [][PostProcessingKeepsFragments]_vars

\* a call has returned a fragment in which deduplication has stored embedding_hash
OnlyEmbeddingHashWitness ==
    /\ Returned
    /\ \E g \in SeqRange(result.fragments) : g.embedding_hash # NoHash

\* the running depth after line k (0-based) of a scan that starts at line start
RECURSIVE DepthAfter(_, _, _)
DepthAfter(lines, start, k) ==
    IF k < start THEN 0 ELSE BraceDelta(lines[k + 1]) + DepthAfter(lines, start, k - 1)

\* C26: from the matched line on, with the depth initialised from the braces of that
\* line, extract_js_block appends the following lines until the depth is <= 0, the
\* window of 500 lines is used up or the file ends: a line is appended only while the
\* depth is > 0; the block has at most 500 lines, the end line is >= the start line and
\* < the number of lines, and a matched line without "{" is the whole block
BlockScanStopsAtDepthZero ==
    (b_ret # NoRet /\ b_start < Len(b_lines)) =>
        LET end_line == b_ret[2]
        IN  /\ b_start <= end_line /\ end_line < Len(b_lines)
            /\ b_ret[1] = Join(SubSeq(b_lines, b_start + 1, end_line + 1), "\n")
            /\ end_line - b_start + 1 <= 500
            /\ ~Contains(b_lines[b_start + 1], "{") => end_line = b_start
            /\ \A k \in (b_start + 1)..end_line : DepthAfter(b_lines, b_start, k - 1) > 0
            /\ \/ DepthAfter(b_lines, b_start, end_line) <= 0
               \/ end_line = Len(b_lines) - 1
               \/ end_line - b_start + 1 = 500
               \/ ~Contains(b_lines[b_start + 1], "{")

\* the adjustments of the scoring table for the signals the scorer reported in metrics
TableAdjustments(metrics, fragment_type) ==
    LET n == metrics["line_count"]
        d == metrics["doc_ratio"]
        c == metrics["complexity"]
        i == metrics["max_indent"]
        on(key) == IF Get(metrics, key, FALSE) THEN 1 ELSE 0
    IN  (IF n >= 10 /\ n <= 50 THEN 2
         ELSE IF n \in 5..9 \/ n \in 51..100 THEN 1
         ELSE IF n > 200 THEN -2 ELSE 0)
      + (IF d[1] * 100 > 15 * d[2] THEN 2 ELSE IF d[1] * 100 > 5 * d[2] THEN 1 ELSE 0)
      + (IF c > 15 THEN -2 ELSE IF c \in 11..15 THEN -1 ELSE IF c \in 3..8 THEN 1 ELSE 0)
      + (IF i > 24 THEN -2 ELSE IF i \in 17..24 THEN -1 ELSE 0)
      + on("has_types") + on("has_async") + on("has_error_handling") + on("has_exports")
      - on("has_todos") - on("has_debug") - on("too_many_ifs")
      + (IF metrics["is_test"] /\ Contains(Lower(fragment_type), "test") THEN 1 ELSE 0)

\* C27: the score is 5 plus the signed adjustments of the table, one band per banded
\* signal (length, documentation ratio, complexity, indentation) and one point per
\* boolean signal, clamped to 1..10
ScoreIsClampedTableSum ==
    q_ret # NoRet =>
        LET sum == 5 + TableAdjustments(q_ret[2], q_type)
        IN  q_ret[1] = (IF sum < 1 THEN 1 ELSE IF sum > 10 THEN 10 ELSE sum)

\* the scorer has returned 3 for a text of more than 200 lines: 5, and -2 for the length
ScoreIsClampedTableSumWitness ==
    /\ q_ret # NoRet
    /\ q_ret[2]["line_count"] > 200
    /\ q_ret[1] = 3

\* the call made in the given mode, all else being the same
InMode(cfg, parallel) == [cfg EXCEPT !.parallel_scan = parallel]

\* the call takes the parallel branch and ThreadPoolExecutor rejects max_workers
PoolRejects(ps, cfg) == UsesPool(ps, cfg) /\ cfg.max_workers <= 0

\* C28: sequential and parallel mode are equivalent up to order: for the same projects
\* and the same configuration apart from parallel_scan, and no exception in a unit, the
\* aggregate before deduplication holds under every scheduling the fragments the
\* sequential loop aggregates, each as often; with deduplicate disabled the results
\* hold the same fragments, each as often; and a call fails in one mode only if it
\* fails in the other
ModesEquivalentUpToOrder ==
    /\ (pc = "aggregated" /\ Injected = {}) =>
          SameBag(all_fragments, SubmissionOrder(Units(projects), InMode(config, FALSE)))
    /\ (Returned /\ ~config.deduplicate /\ Injected = {}) =>
          SameBag(result.fragments, InOrderResult(projects, InMode(config, FALSE)))
    /\ pc = "raised" =>
          PoolRejects(projects, InMode(config, TRUE)) = PoolRejects(projects, InMode(config, FALSE))

\* the steps before the sort
BeforeSort ==
    \/ Begin
    \/ StartUnit
    \/ \E u \in running, fault \in 0..MaxFault : FinishUnit(u, fault)
    \/ \E u \in DOMAIN finished : Collect(u)
    \/ ExitPool
    \/ \E fault \in 0..MaxFault : RunSequential(fault)
    \/ EndSequential
    \/ DedupStep
    \/ FilterStep

\* the step from "filtered" to "done", which in Spec is SortStep
Sorting == pc = "filtered" /\ pc' = "done"

\* the pool runs every worker that can run, as_completed hands over every future that
\* is done, and the caller goes on: no thread of the call stops for ever while it has a
\* step to take
FairSpec == Spec /\ WF_vars(BeforeSort) /\ WF_pc(Sorting)

\* the lists the units up to unit k returned, one after the other
RECURSIVE OutputsUpTo(_)
OutputsUpTo(k) == IF k = 0 THEN << >> ELSE OutputsUpTo(k - 1) \o finished[k]

\* the call is over
Terminated == pc \in {"done", "raised"}

\* a unit starts only as the next one of the queue, what a unit returned is kept as it
\* is, and a unit is collected only when it has returned and was not collected before,
\* by appending what it returned to the aggregate
DispatchStep ==
    /\ next_unit' \in {next_unit, next_unit + 1}
    /\ running' \ running \subseteq {next_unit}
    /\ \A u \in running' \ running : next_unit' = next_unit + 1
    /\ \A u \in DOMAIN finished : u \in DOMAIN finished' /\ finished'[u] = finished[u]
    /\ collected \subseteq collected'
    /\ \A u \in collected' \ collected :
          /\ u \in DOMAIN finished
          /\ collected' = collected \cup {u}
          /\ all_fragments' = all_fragments \o finished[u]
    /\ (pc = "pool" /\ all_fragments' # all_fragments) => collected' # collected

\* every file has been read as a unit, no unit is left running, and the aggregate holds
\* what the units returned
EveryUnitAggregated ==
    /\ next_unit = NumUnits + 1 /\ running = {}
    /\ \A u \in 1..NumUnits : Units(projects)[u].file.path \in files_read
    /\ UsesPool(projects, config) =>
          /\ DOMAIN finished = 1..NumUnits /\ collected = 1..NumUnits
          /\ pc = "aggregated" => SameBag(all_fragments, OutputsUpTo(NumUnits))
    /\ (~UsesPool(projects, config) /\ pc = "aggregated" /\ Injected = {}) =>
          all_fragments = SubmissionOrder(Units(projects), config)

FirstFragmentSurvives ==
    \A k \in 1..Len(d_out) :
        /\ Len(d_out[k]) <= Len(DedupInput(k))
        /\ Len(DedupInput(k)) > 0 =>
              /\ Len(d_out[k]) >= 1
              /\ SameFragment(d_out[k][1], DedupInput(k)[1])

\* a call on three fragments, the second an exact copy of the first and the third a
\* semantic duplicate of it, has returned the first alone
FirstFragmentSurvivesWitness ==
    /\ Len(d_out) >= 1 /\ Len(d_in) = 3
    /\ d_in[2] = d_in[1]
    /\ d_in[3].code # d_in[1].code
    /\ Len(d_out[1]) = 1

====
